---- MODULE Spec2Model ----
(***************************************************************************)
(* The process lifecycle orchestrator of mistral (cmd/mistral/main.go):    *)
(* main() starts the metric socket producer, the handler pool and the HTTP *)
(* server, waits in the run loop for a termination signal or a handler     *)
(* death, and then tears everything down in a timed sequence.              *)
(*                                                                         *)
(* The orchestrator is translated from main.go.  The handlers, the HTTP    *)
(* endpoints and the process state flag live in internal/mistral, and the  *)
(* socket producer in the legacy package; they are modelled at their       *)
(* interface: goroutines that send on and receive from the channels that   *)
(* main.go creates and closes.                                             *)
(*                                                                         *)
(* Channels: an unbuffered channel (handlerDeath) has no state of its own, *)
(* a send on it completes in the same step as the receive; a goroutine     *)
(* blocked in such a send is a goroutine whose position is "pushing".      *)
(* A buffered channel is its length plus a closed flag.                    *)
(* Time: the receive from a time.After channel is the step that ends the   *)
(* wait; waited sums the durations of the timers main has waited out, and  *)
(* drainElapsed the time main has spent in the drain loop, where a receive *)
(* ends an iteration before its timer.                                     *)
(***************************************************************************)
EXTENDS Integers, FiniteSets, Sequences, TLC

\* ---- bounds of the model
NumCPU == 2               \* runtime.NumCPU(): the number of handlers
HandlerQueueLength == 1   \* miConf.Mistral.HandlerQueueLength
MaxRequests == 2          \* ingestion requests the HTTP server receives
MaxSignals == 2           \* termination signals the OS delivers
MaxSocketErrors == 1      \* errors the socket producer reports

\* ---- program constants
GraceSeconds == 95
DrainTimeoutMillis == 10
ExitDelayMillis == 10
HTTPShutdownSeconds == 5
ExitGraceful == 0                \* main returns
ExitFault == 1                   \* os.Exit(1)
ExitPanic == ExitFault + 1       \* the runtime's status for a panic in main
NoExit == ExitGraceful - 1       \* the process has not exited

Handlers == 0 .. (NumCPU - 1)

VARIABLES
    pc,               \* position of main()
    launched,         \* loop variable i of the handler start loop
    c,                \* length of the signal channel c (capacity 1)
    signalsSent,      \* termination signals delivered to the process so far
    processState,     \* the health flag behind SetShutdown/SetUnavailable
    fault,            \* main's local fault
    shutdown,         \* main's local shutdown
    exitCode,         \* exit status of the process, NoExit while it runs
    logged,           \* the kinds of log line main has written
    waited,           \* milliseconds main has spent waiting out timers
    drainElapsed,     \* milliseconds main has spent in the drain loop
    msStarted,        \* go ms.Run() was executed
    msEmitted,        \* errors the producer has put on ms.Errors
    msReceived,       \* errors main has taken from ms.Errors
    msShutdownClosed, \* ms.Shutdown is closed
    hpc,              \* position of each handler goroutine
    faulted,          \* handlers that have reported their error
    input,            \* length of each handler's Input channel
    inputClosed,      \* handlers whose Input channel is closed
    shutdownClosed,   \* handlers whose Shutdown channel is closed
    senders,          \* per handler: ingestion requests at the send on Input
    reqStarted,       \* ingestion requests accepted so far
    reqPanicked,      \* an ingestion request sent on a closed Input channel
    httpPc,           \* position of the goroutine around srv.ListenAndServe
    closeCur,         \* loop variable i of the close loop
    closeSeen         \* handlers the close loop has finished

vars == <<pc, launched, c, signalsSent, processState, fault, shutdown,
          exitCode, logged, waited, drainElapsed, msStarted, msEmitted, msReceived,
          msShutdownClosed, hpc, faulted, input, inputClosed, shutdownClosed,
          senders, reqStarted, reqPanicked, httpPc, closeCur, closeSeen>>

\* groups used in UNCHANGED
sigVars == <<c, signalsSent>>
msVars == <<msStarted, msEmitted, msReceived, msShutdownClosed>>
handlerVars == <<hpc, faulted, input, inputClosed, shutdownClosed>>
reqVars == <<senders, reqStarted, reqPanicked>>
loopVars == <<launched, closeCur, closeSeen>>
flagVars == <<processState, fault, shutdown, exitCode>>

\* ---- the process state flag (internal/mistral)
SetShutdown(s) == "ShuttingDown"

SetUnavailable(s) == "Unavailable"

IsHealthy(s) == s = "Healthy"

\* ---- helpers
Running == pc \notin {"done", "panic"}

TimerDuration(p) ==
    CASE p = "grace" -> GraceSeconds * 1000
      [] p = "drainloop" -> DrainTimeoutMillis
      [] p = "delay" -> ExitDelayMillis
      [] p = "srv_wait" -> HTTPShutdownSeconds * 1000
      [] OTHER -> 0

\* handlers blocked in `handlerDeath <- err`
DeathSenders == {h \in Handlers : hpc[h] = "pushing"}

\* a receive from handlerDeath: the send of one blocked goroutine (a handler,
\* or the goroutine of lines 148-152) completes, and that goroutine goes on
ReceiveDeath ==
    \/ /\ \E h \in DeathSenders : hpc' = [hpc EXCEPT ![h] = "run"]
       /\ httpPc' = httpPc
    \/ /\ httpPc = "pushing"
       /\ httpPc' = "exited"
       /\ hpc' = hpc

ActiveRequests == {h \in Handlers : senders[h] > 0}

MsPending == msEmitted - msReceived

\* the test of line 180 dropped on the way to the close: no grace wait at all
AfterRunloop_NoGrace(sd) == "close_ms"

\* the test of line 180 dropped around the wait: every path waits
AfterRunloop_AlwaysGrace(sd) == "grace"

\* lines 180-187: the grace wait is entered only with shutdown set
AfterRunloop(sd) == IF sd THEN "grace" ELSE "close_ms"

\* the range stops one handler short
RangeNext_SkipsLast(seen) ==
    {h \in Handlers : h < launched - 1 /\ h \notin seen}

\* the range yields handlers it has visited already
RangeNext_Revisits(seen) ==
    {h \in Handlers : h < launched /\ Cardinality(seen) < launched}

\* line 188: the handlers `range mistral.Handlers` may yield next.  The
\* registry is filled by the start loop under the handler numbers; main.go
\* does not fix the order in which range visits it (the registry is declared
\* in internal/mistral), so any handler not yet visited may come next
RangeNext(seen) == {h \in Handlers : h < launched /\ h \notin seen}

Init ==
    /\ pc = "start"
    /\ launched = 0
    /\ c = 0
    /\ signalsSent = 0
    /\ processState = "Healthy"
    /\ fault = FALSE
    /\ shutdown = FALSE
    /\ exitCode = NoExit
    /\ logged = {}
    /\ waited = 0
    /\ drainElapsed = 0
    /\ msStarted = FALSE
    /\ msEmitted = 0
    /\ msReceived = 0
    /\ msShutdownClosed = FALSE
    /\ hpc = [h \in Handlers |-> "notstarted"]
    /\ faulted = {}
    /\ input = [h \in Handlers |-> 0]
    /\ inputClosed = {}
    /\ shutdownClosed = {}
    /\ senders = [h \in Handlers |-> 0]
    /\ reqStarted = 0
    /\ reqPanicked = FALSE
    /\ httpPc = "notstarted"
    /\ closeCur = 0
    /\ closeSeen = {}

\* ---- main(): startup

\* lines 107-112: the producer runs only if ProduceMetrics is configured
StartProducer ==
    /\ pc = "start"
    /\ \E produceMetrics \in BOOLEAN : msStarted' = produceMetrics
    /\ pc' = "handlers"
    /\ UNCHANGED <<sigVars, flagVars, logged, waited, drainElapsed, msEmitted,
                   msReceived, msShutdownClosed, handlerVars, reqVars,
                   httpPc, loopVars>>

\* lines 115-128: one iteration of the handler start loop
LaunchHandler ==
    /\ pc = "handlers"
    /\ launched < NumCPU
    /\ hpc' = [hpc EXCEPT ![launched] = "run"]
    /\ launched' = launched + 1
    /\ pc' = IF launched + 1 < NumCPU THEN "handlers" ELSE "http"
    /\ UNCHANGED <<sigVars, flagVars, logged, waited, drainElapsed, msVars,
                   faulted, input, inputClosed, shutdownClosed, reqVars,
                   httpPc, closeCur, closeSeen>>

\* lines 144-152
StartHTTP ==
    /\ pc = "http"
    /\ httpPc' = "serving"
    /\ pc' = "runloop"
    /\ UNCHANGED <<sigVars, flagVars, logged, waited, drainElapsed, msVars,
                   handlerVars, reqVars, loopVars>>

\* ---- main(): the run loop (lines 157-178)

\* a socket error handled like a handler death
RunloopSocketError_Escalates ==
    /\ pc = "runloop"
    /\ MsPending > 0
    /\ msReceived' = msReceived + 1
    /\ logged' = logged \cup {"Socket error"}
    /\ processState' = SetUnavailable(processState)
    /\ fault' = TRUE
    /\ pc' = AfterRunloop(shutdown)
    /\ UNCHANGED <<sigVars, shutdown, exitCode, waited, drainElapsed,
                   msStarted, msEmitted, msShutdownClosed, handlerVars,
                   reqVars, httpPc, loopVars>>

\* lines 160-161
RunloopSocketError ==
    /\ pc = "runloop"
    /\ MsPending > 0
    /\ msReceived' = msReceived + 1
    /\ logged' = logged \cup {"Socket error"}
    /\ UNCHANGED <<pc, sigVars, flagVars, waited, drainElapsed, msStarted,
                   msEmitted, msShutdownClosed, handlerVars, reqVars, httpPc,
                   loopVars>>

\* the signal case without the call of SetShutdown
RunloopSignal_NoSetShutdown ==
    /\ pc = "runloop"
    /\ c > 0
    /\ c' = c - 1
    /\ logged' = logged \cup {"Received shutdown signal"}
    /\ shutdown' = TRUE
    /\ pc' = AfterRunloop(TRUE)
    /\ UNCHANGED <<signalsSent, processState, fault, exitCode, waited,
                   drainElapsed, msVars, handlerVars, reqVars, httpPc,
                   loopVars>>

\* the signal case with a plain break, which leaves the select only
RunloopSignal_PlainBreak ==
    /\ pc = "runloop"
    /\ c > 0
    /\ c' = c - 1
    /\ logged' = logged \cup {"Received shutdown signal"}
    /\ processState' = SetShutdown(processState)
    /\ shutdown' = TRUE
    /\ UNCHANGED <<pc, signalsSent, fault, exitCode, waited, drainElapsed,
                   msVars, handlerVars, reqVars, httpPc, loopVars>>

\* lines 162-168 and the test of line 180
RunloopSignal ==
    /\ pc = "runloop"
    /\ c > 0
    /\ c' = c - 1
    /\ logged' = logged \cup {"Received shutdown signal"}
    /\ processState' = SetShutdown(processState)
    /\ shutdown' = TRUE
    /\ pc' = AfterRunloop(TRUE)
    /\ UNCHANGED <<signalsSent, fault, exitCode, waited, drainElapsed,
                   msVars, handlerVars, reqVars, httpPc, loopVars>>

\* the handler death case with a plain break, which leaves the select only
RunloopHandlerDeath_PlainBreak ==
    /\ pc = "runloop"
    /\ ReceiveDeath
    /\ logged' = logged \cup {"Handler died"}
    /\ processState' = SetUnavailable(processState)
    /\ fault' = TRUE
    /\ UNCHANGED <<pc, sigVars, shutdown, exitCode, waited, drainElapsed,
                   msVars, faulted, input, inputClosed, shutdownClosed,
                   reqVars, loopVars>>

\* the handler death case handled like a socket error: logged only
RunloopHandlerDeath_LogOnly ==
    /\ pc = "runloop"
    /\ ReceiveDeath
    /\ logged' = logged \cup {"Handler died"}
    /\ UNCHANGED <<pc, sigVars, flagVars, waited, drainElapsed, msVars,
                   faulted, input, inputClosed, shutdownClosed, reqVars,
                   loopVars>>

\* lines 169-176 and the test of line 180
RunloopHandlerDeath ==
    /\ pc = "runloop"
    /\ ReceiveDeath
    /\ logged' = logged \cup {"Handler died"}
    /\ processState' = SetUnavailable(processState)
    /\ fault' = TRUE
    /\ pc' = AfterRunloop(shutdown)
    /\ UNCHANGED <<sigVars, shutdown, exitCode, waited, drainElapsed, msVars,
                   faulted, input, inputClosed, shutdownClosed, reqVars,
                   loopVars>>

\* line 183: <-time.After(time.Second * 95)
GraceElapsed ==
    /\ pc = "grace"
    /\ waited' = waited + TimerDuration("grace")
    /\ UNCHANGED drainElapsed
    /\ pc' = "close_ms"
    /\ UNCHANGED <<sigVars, flagVars, logged, msVars, handlerVars,
                   reqVars, httpPc, loopVars>>

\* ---- main(): close all handlers (lines 187-191)

\* where the close loop goes once `seen` is done: its next handler, or on
\* to the drain loop
CloseLoopNext(seen) ==
    IF RangeNext(seen) = {}
    THEN /\ pc' = "drainloop"
         /\ closeCur' = closeCur
    ELSE /\ pc' = "close_sd"
         /\ closeCur' \in RangeNext(seen)

\* a close of a closed channel panics, main dies with the runtime's status
Panic ==
    /\ pc' = "panic"
    /\ exitCode' = ExitPanic

\* line 187: close(ms.Shutdown)
CloseProducer ==
    /\ pc = "close_ms"
    /\ IF msShutdownClosed
       THEN /\ Panic
            /\ UNCHANGED <<msShutdownClosed, closeCur>>
       ELSE /\ msShutdownClosed' = TRUE
            /\ CloseLoopNext(closeSeen)
            /\ exitCode' = exitCode
    /\ UNCHANGED <<sigVars, processState, fault, shutdown, logged, waited,
                   drainElapsed, msStarted, msEmitted, msReceived,
                   handlerVars, reqVars, httpPc, launched, closeSeen>>

\* line 189 written as a copy of line 190: it closes the Input channel
CloseHandlerShutdown_ClosesInput ==
    /\ pc = "close_sd"
    /\ IF closeCur \in inputClosed
       THEN /\ Panic
            /\ UNCHANGED inputClosed
       ELSE /\ inputClosed' = inputClosed \cup {closeCur}
            /\ pc' = "close_in"
            /\ exitCode' = exitCode
    /\ UNCHANGED <<sigVars, processState, fault, shutdown, logged, waited,
                   drainElapsed, msVars, hpc, faulted, input, shutdownClosed,
                   reqVars, httpPc, loopVars>>

\* line 189: close(mistral.Handlers[i].ShutdownChannel())
CloseHandlerShutdown ==
    /\ pc = "close_sd"
    /\ IF closeCur \in shutdownClosed
       THEN /\ Panic
            /\ UNCHANGED shutdownClosed
       ELSE /\ shutdownClosed' = shutdownClosed \cup {closeCur}
            /\ pc' = "close_in"
            /\ exitCode' = exitCode
    /\ UNCHANGED <<sigVars, processState, fault, shutdown, logged, waited,
                   drainElapsed, msVars, hpc, faulted, input, inputClosed,
                   reqVars, httpPc, loopVars>>

\* line 190: close(mistral.Handlers[i].InputChannel()), and the loop head
CloseHandlerInput ==
    /\ pc = "close_in"
    /\ IF closeCur \in inputClosed
       THEN /\ Panic
            /\ UNCHANGED <<inputClosed, closeSeen, closeCur>>
       ELSE /\ inputClosed' = inputClosed \cup {closeCur}
            /\ closeSeen' = closeSeen \cup {closeCur}
            /\ CloseLoopNext(closeSeen \cup {closeCur})
            /\ exitCode' = exitCode
    /\ UNCHANGED <<sigVars, processState, fault, shutdown, logged, waited,
                   drainElapsed, msVars, hpc, faulted, input, shutdownClosed,
                   reqVars, httpPc, launched>>

\* ---- main(): the drain loop (lines 194-204); each iteration waits on a
\* new 10ms timer

\* an error is ready on one of the channels the drain loop receives from
DrainPending == MsPending > 0 \/ DeathSenders # {} \/ httpPc = "pushing"

\* an iteration of the drain loop that receives an error has lasted less
\* than its timer: the error was ready at once or came just before the timer
ArrivalDelays == {0, DrainTimeoutMillis - 1}

\* lines 197-198
DrainSocketError ==
    /\ pc = "drainloop"
    /\ MsPending > 0
    /\ msReceived' = msReceived + 1
    /\ logged' = logged \cup {"Socket error"}
    /\ \E d \in ArrivalDelays : drainElapsed' = drainElapsed + d
    /\ UNCHANGED <<pc, sigVars, flagVars, waited, msStarted, msEmitted,
                   msShutdownClosed, handlerVars, reqVars, httpPc, loopVars>>

\* the drain loop's case a copy of the run loop's: it escalates
DrainHandlerError_Escalates ==
    /\ pc = "drainloop"
    /\ ReceiveDeath
    /\ logged' = logged \cup {"Handler error"}
    /\ processState' = SetUnavailable(processState)
    /\ fault' = TRUE
    /\ \E d \in ArrivalDelays : drainElapsed' = drainElapsed + d
    /\ UNCHANGED <<pc, sigVars, shutdown, exitCode, waited, msVars, faulted,
                   input, inputClosed, shutdownClosed, reqVars, loopVars>>

\* lines 199-200
DrainHandlerError ==
    /\ pc = "drainloop"
    /\ ReceiveDeath
    /\ logged' = logged \cup {"Handler error"}
    /\ \E d \in ArrivalDelays : drainElapsed' = drainElapsed + d
    /\ UNCHANGED <<pc, sigVars, flagVars, waited, msVars, faulted, input,
                   inputClosed, shutdownClosed, reqVars, loopVars>>

\* the drain loop's timer taken for the delay of line 208 as well
DrainTimeout_SkipsDelay ==
    /\ pc = "drainloop"
    /\ ~DrainPending
    /\ waited' = waited + TimerDuration("drainloop")
    /\ drainElapsed' = drainElapsed + TimerDuration("drainloop")
    /\ pc' = "srv_shutdown"
    /\ UNCHANGED <<sigVars, flagVars, logged, msVars, handlerVars,
                   reqVars, httpPc, loopVars>>

\* the timer case is always ready once its 10ms are over
DrainTimeout_IgnoresPending ==
    /\ pc = "drainloop"
    /\ waited' = waited + TimerDuration("drainloop")
    /\ drainElapsed' = drainElapsed + TimerDuration("drainloop")
    /\ pc' = "delay"
    /\ UNCHANGED <<sigVars, flagVars, logged, msVars, handlerVars,
                   reqVars, httpPc, loopVars>>

\* lines 201-202: the timer of this iteration fires; a send that was ready
\* on ms.Errors or handlerDeath would have been taken before it
DrainTimeout ==
    /\ pc = "drainloop"
    /\ ~DrainPending
    /\ waited' = waited + TimerDuration("drainloop")
    /\ drainElapsed' = drainElapsed + TimerDuration("drainloop")
    /\ pc' = "delay"
    /\ UNCHANGED <<sigVars, flagVars, logged, msVars, handlerVars,
                   reqVars, httpPc, loopVars>>

\* line 208: <-time.After(time.Millisecond * 10)
ExitDelay ==
    /\ pc = "delay"
    /\ waited' = waited + TimerDuration("delay")
    /\ UNCHANGED drainElapsed
    /\ pc' = "srv_shutdown"
    /\ UNCHANGED <<sigVars, flagVars, logged, msVars, handlerVars,
                   reqVars, httpPc, loopVars>>

\* ---- main(): stop the HTTP server (lines 211-216)

\* srv.Shutdown closes the listener, so ListenAndServe returns
\* ErrServerClosed to the goroutine of lines 148-152; the context deadline
\* starts to run
SrvShutdownBegin ==
    /\ pc = "srv_shutdown"
    /\ httpPc' = IF httpPc = "serving" THEN "pushing" ELSE httpPc
    /\ pc' = "srv_wait"
    /\ UNCHANGED <<sigVars, flagVars, logged, waited, drainElapsed, msVars,
                   handlerVars, reqVars, loopVars>>

\* srv.Shutdown called with a context that has no deadline
SrvShutdownReturn_NoDeadline ==
    /\ pc = "srv_wait"
    /\ ActiveRequests = {}
    /\ pc' = "exit"
    /\ UNCHANGED <<sigVars, flagVars, logged, waited, drainElapsed, msVars,
                   handlerVars, reqVars, httpPc, loopVars>>

\* srv.Shutdown returns nil once no request is active, or the context's
\* error at the deadline (logged, line 215)
SrvShutdownReturn ==
    /\ pc = "srv_wait"
    /\ \/ /\ ActiveRequests = {}
          /\ UNCHANGED <<logged, waited, drainElapsed>>
       \/ /\ ActiveRequests # {}
          /\ logged' = logged \cup {"HTTP shutdown error"}
          /\ waited' = waited + TimerDuration("srv_wait")
          /\ UNCHANGED drainElapsed
    /\ pc' = "exit"
    /\ UNCHANGED <<sigVars, flagVars, msVars, handlerVars, reqVars,
                   httpPc, loopVars>>

\* the os.Exit(1) of line 219 left out
ExitStatus_AlwaysZero(f) == ExitGraceful

\* lines 217-221
ExitStatus(f) == IF f THEN ExitFault ELSE ExitGraceful

Exit ==
    /\ pc = "exit"
    /\ logged' = logged \cup {"MISTRAL shutdown complete"}
    /\ exitCode' = ExitStatus(fault)
    /\ pc' = "done"
    /\ UNCHANGED <<sigVars, processState, fault, shutdown, waited,
                   drainElapsed, msVars, handlerVars, reqVars, httpPc,
                   loopVars>>

\* ---- the environment of main()

\* c made without a buffer: a signal is dropped unless main stands at its
\* receive
DeliverSignal_Unbuffered ==
    /\ Running
    /\ signalsSent < MaxSignals
    /\ signalsSent' = signalsSent + 1
    /\ c' = IF pc = "runloop" /\ c < 1 THEN c + 1 ELSE c
    /\ UNCHANGED <<pc, flagVars, logged, waited, drainElapsed, msVars,
                   handlerVars, reqVars, httpPc, loopVars>>

\* lines 88-89: signal.Notify sends without blocking on c (capacity 1); a
\* signal that finds c full is dropped
DeliverSignal ==
    /\ Running
    /\ signalsSent < MaxSignals
    /\ signalsSent' = signalsSent + 1
    /\ c' = IF c < 1 THEN c + 1 ELSE c
    /\ UNCHANGED <<pc, flagVars, logged, waited, drainElapsed, msVars,
                   handlerVars, reqVars, httpPc, loopVars>>

\* the running producer reports an error on ms.Errors
SocketProducerError ==
    /\ Running
    /\ msStarted
    /\ msEmitted < MaxSocketErrors
    /\ msEmitted' = msEmitted + 1
    /\ UNCHANGED <<pc, sigVars, flagVars, logged, waited, drainElapsed,
                   msStarted, msReceived, msShutdownClosed, handlerVars,
                   reqVars, httpPc, loopVars>>

\* lines 148-151: srv.ListenAndServe fails, the goroutine goes to
\* `handlerDeath <- err`
HTTPListenFailure ==
    /\ Running
    /\ httpPc = "serving"
    /\ httpPc' = "pushing"
    /\ UNCHANGED <<pc, sigVars, flagVars, logged, waited, drainElapsed,
                   msVars, handlerVars, reqVars, loopVars>>

\* ---- the handlers (internal/mistral)

\* a handler takes a message off its Input and processes it
HandlerConsume(h) ==
    /\ Running
    /\ hpc[h] = "run"
    /\ input[h] > 0
    /\ input' = [input EXCEPT ![h] = @ - 1]
    /\ UNCHANGED <<pc, sigVars, flagVars, logged, waited, drainElapsed,
                   msVars, hpc, faulted, inputClosed, shutdownClosed,
                   reqVars, httpPc, loopVars>>

\* processing the message fails: the handler pushes its error onto Death,
\* once
HandlerFault(h) ==
    /\ Running
    /\ hpc[h] = "run"
    /\ input[h] > 0
    /\ h \notin faulted
    /\ input' = [input EXCEPT ![h] = @ - 1]
    /\ faulted' = faulted \cup {h}
    /\ hpc' = [hpc EXCEPT ![h] = "pushing"]
    /\ UNCHANGED <<pc, sigVars, flagVars, logged, waited, drainElapsed,
                   msVars, inputClosed, shutdownClosed, reqVars, httpPc,
                   loopVars>>

\* the handler runs until its Shutdown is closed and its Input is closed
\* and drained
HandlerExit(h) ==
    /\ Running
    /\ hpc[h] = "run"
    /\ h \in shutdownClosed
    /\ h \in inputClosed
    /\ input[h] = 0
    /\ hpc' = [hpc EXCEPT ![h] = "exited"]
    /\ UNCHANGED <<pc, sigVars, flagVars, logged, waited, drainElapsed,
                   msVars, faulted, input, inputClosed, shutdownClosed,
                   reqVars, httpPc, loopVars>>

\* ---- the ingestion endpoint (internal/mistral), served while the
\* listener is open

\* the send of a request on the Input of handler h: it panics on a closed
\* channel, enqueues when there is room and blocks on a full channel
SendOnInput(h, blockedBefore) ==
    IF h \in inputClosed
    THEN /\ reqPanicked' = TRUE
         /\ input' = input
         /\ senders' = [senders EXCEPT ![h] = blockedBefore]
    ELSE IF input[h] < HandlerQueueLength
    THEN /\ input' = [input EXCEPT ![h] = @ + 1]
         /\ reqPanicked' = reqPanicked
         /\ senders' = [senders EXCEPT ![h] = blockedBefore]
    ELSE /\ senders' = [senders EXCEPT ![h] = blockedBefore + 1]
         /\ UNCHANGED <<input, reqPanicked>>

\* a request arrives, is routed to handler h and reaches its send; an
\* unavailable process fails it before that (main.go lines 171-173)
EndpointRequest(h) ==
    /\ Running
    /\ httpPc = "serving"
    /\ reqStarted < MaxRequests
    /\ reqStarted' = reqStarted + 1
    /\ IF processState = "Unavailable"
       THEN UNCHANGED <<input, senders, reqPanicked>>
       ELSE SendOnInput(h, senders[h])
    /\ UNCHANGED <<pc, sigVars, flagVars, logged, waited, drainElapsed,
                   msVars, hpc, faulted, inputClosed, shutdownClosed, httpPc,
                   loopVars>>

\* a request blocked in its send goes on: the handler made room, or the
\* channel was closed under it
EndpointUnblock(h) ==
    /\ Running
    /\ senders[h] > 0
    /\ h \in inputClosed \/ input[h] < HandlerQueueLength
    /\ SendOnInput(h, senders[h] - 1)
    /\ UNCHANGED <<pc, sigVars, flagVars, logged, waited, drainElapsed,
                   msVars, hpc, faulted, inputClosed, shutdownClosed,
                   reqStarted, httpPc, loopVars>>

Next ==
    \/ StartProducer
    \/ LaunchHandler
    \/ StartHTTP
    \/ RunloopSocketError
    \/ RunloopSignal
    \/ RunloopHandlerDeath
    \/ GraceElapsed
    \/ CloseProducer
    \/ CloseHandlerShutdown
    \/ CloseHandlerInput
    \/ DrainSocketError
    \/ DrainHandlerError
    \/ DrainTimeout
    \/ ExitDelay
    \/ SrvShutdownBegin
    \/ SrvShutdownReturn
    \/ Exit
    \/ DeliverSignal
    \/ SocketProducerError
    \/ HTTPListenFailure
    \/ \E h \in Handlers : HandlerConsume(h)
    \/ \E h \in Handlers : HandlerFault(h)
    \/ \E h \in Handlers : HandlerExit(h)
    \/ \E h \in Handlers : EndpointRequest(h)
    \/ \E h \in Handlers : EndpointUnblock(h)

Spec == Init /\ [][Next]_vars

\* a step of the goroutine of main()
MainStep ==
    \/ StartProducer
    \/ LaunchHandler
    \/ StartHTTP
    \/ RunloopSocketError
    \/ RunloopSignal
    \/ RunloopHandlerDeath
    \/ GraceElapsed
    \/ CloseProducer
    \/ CloseHandlerShutdown
    \/ CloseHandlerInput
    \/ DrainSocketError
    \/ DrainHandlerError
    \/ DrainTimeout
    \/ ExitDelay
    \/ SrvShutdownBegin
    \/ SrvShutdownReturn
    \/ Exit

\* the scheduler runs main() whenever it can take a step, and its timers
\* fire; nothing is assumed of the handlers, the requests, the producer or
\* the signals
FairSpec == Spec /\ WF_vars(MainStep)


\* ---- the properties

PreCommit == {"start", "handlers", "http", "runloop"}

\* a teardown step has been taken: a shutdown signal or an input queue is
\* closed, or the HTTP server shutdown has been issued
TeardownBegun ==
    \/ msShutdownClosed
    \/ shutdownClosed # {}
    \/ inputClosed # {}
    \/ pc \in {"srv_wait", "exit", "done"}

GraceMillis == GraceSeconds * 1000

\* the send of a goroutine on handlerDeath completes in this step
PushCompleted ==
    \/ \E h \in Handlers : hpc[h] = "pushing" /\ hpc'[h] # "pushing"
    \/ httpPc = "pushing" /\ httpPc' = "exited"

\* C1: the process exits through the end of main only; its status is 0
\* exactly when the run loop was left by the signal case and 1 exactly when
\* it was left by the handler death case; there is no other exit status and
\* no exit without one of the two.
C1_ExitStatusMatchesPath ==
    /\ pc # "panic"
    /\ exitCode # NoExit <=> pc = "done"
    /\ pc = "done" =>
          /\ exitCode \in {ExitGraceful, ExitFault}
          /\ exitCode = ExitGraceful <=> "Received shutdown signal" \in logged
          /\ exitCode = ExitFault <=> "Handler died" \in logged
          /\ ~("Received shutdown signal" \in logged /\ "Handler died" \in logged)

C1_Witness ==
    /\ pc = "done"
    /\ exitCode = ExitFault
    /\ "Handler died" \in logged
    /\ signalsSent > 0

\* C2: once any teardown step has been taken, the process state is not
\* Healthy.
C2_NoHealthyAfterTeardown == TeardownBegun => ~IsHealthy(processState)

C2_Witness ==
    /\ msShutdownClosed
    /\ shutdownClosed = {}
    /\ processState = "ShuttingDown"

\* C3: the process state changes once only: from Healthy to ShuttingDown in
\* the step in which the signal case leaves the run loop, or from Healthy to
\* Unavailable in the step in which the handler death case leaves it; after
\* that it keeps its value whatever arrives, and leaving the run loop
\* always leaves it not healthy.
C3_StateOneWay ==
    [][ /\ ~IsHealthy(processState) => processState' = processState
        /\ processState' # processState =>
              /\ pc = "runloop" /\ pc' # "runloop"
              /\ \/ processState' = "ShuttingDown" /\ c > 0 /\ c' < c
                    /\ shutdown' /\ ~fault'
                 \/ processState' = "Unavailable" /\ PushCompleted
                    /\ fault' /\ ~shutdown'
        /\ (pc = "runloop" /\ pc' # "runloop") =>
              IsHealthy(processState) /\ ~IsHealthy(processState')
      ]_vars

C3_Witness ==
    /\ processState = "ShuttingDown"
    /\ "Handler error" \in logged
    /\ c > 0
    /\ msReceived > 0

\* C4: on the graceful path no teardown step is taken before the whole
\* grace interval has been waited out, whatever arrives in the meantime,
\* the wait is the orchestrator's only step before the close of the
\* producer's shutdown signal, and the exit status is 0.
C4_GraceBeforeDraining ==
    /\ (shutdown /\ waited < GraceMillis) => (pc = "grace" /\ ~TeardownBegun)
    /\ (shutdown /\ pc = "grace") => (waited = 0 /\ ~TeardownBegun)
    /\ (shutdown /\ TeardownBegun) => waited >= GraceMillis
    /\ (shutdown /\ pc = "done") => exitCode = ExitGraceful

C4_Witness ==
    /\ pc = "grace"
    /\ c > 0
    /\ DeathSenders # {}
    /\ httpPc = "pushing"
    /\ MsPending > 0

\* C5: on the fault path there is no grace wait: from the commit until the
\* producer's shutdown signal is closed the orchestrator stands right
\* before that close and has waited out no timer; the grace interval is
\* never waited and the exit status is 1.
C5_FaultDrainsAtOnce ==
    /\ (fault /\ ~msShutdownClosed) => (pc = "close_ms" /\ waited = 0)
    /\ fault => (pc # "grace" /\ waited < GraceMillis)
    /\ (fault /\ pc = "done") => exitCode = ExitFault

C5_Witness ==
    /\ fault
    /\ pc = "close_ms"
    /\ ~msShutdownClosed
    /\ c > 0

\* C6: a producer error received in the run loop changes the log (and
\* the channel it was taken from) and nothing else: the process state stays
\* Healthy, no path is committed, no channel is closed and the orchestrator
\* stays in the run loop.
C6_SocketErrorFrame ==
    [][ (pc = "runloop" /\ msReceived' # msReceived) =>
          /\ pc' = "runloop"
          /\ IsHealthy(processState) /\ IsHealthy(processState')
          /\ ~fault' /\ ~shutdown' /\ ~TeardownBegun'
          /\ msReceived' = msReceived + 1
          /\ UNCHANGED <<sigVars, flagVars, waited, msStarted, msEmitted,
                         msShutdownClosed, handlerVars, reqVars, httpPc,
                         loopVars>>
      ]_vars

C6_Witness ==
    /\ pc = "runloop"
    /\ msReceived > 0
    /\ MsPending = 0
    /\ IsHealthy(processState)
    /\ c > 0

\* C7: the two flags are never both set; the flag that is set decides the
\* process state, the grace wait and the exit status, whatever else was or
\* becomes pending.
C7_OnePath ==
    /\ ~(fault /\ shutdown)
    /\ ~("Received shutdown signal" \in logged /\ "Handler died" \in logged)
    /\ pc \notin PreCommit => (fault \/ shutdown)
    /\ shutdown => processState = "ShuttingDown"
    /\ fault => processState = "Unavailable"
    /\ (shutdown /\ pc \notin {"grace"}) => waited >= GraceMillis
    /\ fault => waited < GraceMillis
    /\ pc = "done" => exitCode = (IF fault THEN ExitFault ELSE ExitGraceful)

C7_Witness ==
    /\ pc = "done"
    /\ fault
    /\ c > 0

\* C8: once the run loop has been left, no step changes the process state
\* or the flags or leads back before the commit, and the exit status is the
\* one of the committed path; an error received after the commit is logged
\* only.
C8_StragglersLoggedOnly ==
    [][ pc \notin PreCommit =>
          /\ pc' \notin PreCommit
          /\ UNCHANGED <<processState, fault, shutdown>>
          /\ (PushCompleted \/ msReceived' # msReceived) =>
                /\ pc' = pc
                /\ UNCHANGED <<exitCode, waited, msShutdownClosed,
                               inputClosed, shutdownClosed>>
          /\ exitCode' # exitCode =>
                exitCode' = (IF "Received shutdown signal" \in logged
                             THEN ExitGraceful ELSE ExitFault)
      ]_vars

C8_Witness ==
    /\ pc = "done"
    /\ exitCode = ExitGraceful
    /\ "Handler error" \in logged
    /\ faulted # {}
    /\ msReceived > 0

\* C9 as claimed: whenever the orchestrator has received an error from the
\* fault signal, the process state is Unavailable and the exit status is 1.
C9_EveryFaultEscalates ==
    (pc = "done" /\ ("Handler died" \in logged \/ "Handler error" \in logged))
        => (processState = "Unavailable" /\ exitCode = ExitFault)

\* C9 as amended: an error received from the fault signal in the run loop
\* commits the fault path: the process state becomes Unavailable and the
\* exit status is 1, also when a termination signal is pending; an error
\* received after a termination signal has committed is logged only, the
\* process state stays ShuttingDown and the exit status is 0.
C9_FaultInRunloopEscalates ==
    /\ [][ (pc = "runloop" /\ PushCompleted) =>
              (processState' = "Unavailable" /\ fault' /\ pc' = "close_ms")
         ]_vars
    /\ []("Handler died" \in logged =>
              /\ processState = "Unavailable"
              /\ pc \notin PreCommit
              /\ pc = "done" => exitCode = ExitFault)
    /\ []((shutdown /\ "Handler error" \in logged) =>
              /\ processState = "ShuttingDown"
              /\ pc = "done" => exitCode = ExitGraceful)

C9_Witness ==
    /\ pc = "done"
    /\ exitCode = ExitFault
    /\ httpPc = "exited"
    /\ faulted = {}
    /\ c > 0

\* C10 as claimed: no ingestion request sends, or is blocked in its send, on
\* an input queue that is closed; no request panics.
C10_NoSendOnClosedInput ==
    /\ ~reqPanicked
    /\ \A h \in inputClosed : senders[h] = 0

\* every handler's shutdown signal and input queue is closed
AllHandlersClosed == shutdownClosed = Handlers /\ inputClosed = Handlers

AfterCloses == {"drainloop", "delay", "srv_shutdown", "srv_wait", "exit",
                "done"}

\* C11: once a path is committed, every handler's shutdown signal and every
\* handler's input queue is eventually closed, on both paths, and all of them
\* are closed when the drain loop starts.
C11_AllHandlersClosed ==
    /\ [](pc \in AfterCloses => AllHandlersClosed)
    /\ (shutdown ~> AllHandlersClosed)
    /\ (fault ~> AllHandlersClosed)

C11_Witness ==
    /\ pc = "drainloop"
    /\ AllHandlersClosed
    /\ shutdown
    /\ DeathSenders # {}

AfterDrain == {"delay", "srv_shutdown", "srv_wait", "exit", "done"}

\* an error is received from handlerDeath or ms.Errors in this step
ErrorReceived == PushCompleted \/ msReceived' # msReceived

\* every handler and the HTTP goroutine push at most once, the producer at
\* most MaxSocketErrors times
MaxStragglers == NumCPU + MaxSocketErrors + 1

\* C18 as claimed: the drain loop lasts no longer than its 10ms from the
\* last close to its exit, however many errors it receives.
C18_DrainWithinBound ==
    /\ pc = "drainloop" => drainElapsed < DrainTimeoutMillis
    /\ pc \in AfterDrain => drainElapsed <= DrainTimeoutMillis

\* C18 as amended: the drain loop receives, for logging only, every error
\* that is ready on handlerDeath or ms.Errors, and is left when 10ms have
\* passed without one; every receive starts a new 10ms timer, so the bound
\* holds for each iteration and the whole loop lasts at most 10ms for each
\* error received plus the closing 10ms.
C18_DrainBoundedPerIteration ==
    /\ [](pc \in PreCommit \cup {"grace", "close_ms", "close_sd", "close_in"}
             => drainElapsed = 0)
    /\ [](drainElapsed <= DrainTimeoutMillis * (MaxStragglers + 1))
    /\ [][ pc = "drainloop" =>
             /\ ErrorReceived =>
                   /\ pc' = "drainloop"
                   /\ drainElapsed' - drainElapsed < DrainTimeoutMillis
                   /\ UNCHANGED <<flagVars, waited>>
             /\ pc' # pc =>
                   /\ pc' = "delay"
                   /\ ~DrainPending
                   /\ drainElapsed' = drainElapsed + DrainTimeoutMillis
             /\ drainElapsed' # drainElapsed => (ErrorReceived \/ pc' = "delay")
         ]_vars
    /\ [][ (pc \in AfterDrain) => (drainElapsed' = drainElapsed) ]_vars

C18_Witness ==
    /\ pc = "delay"
    /\ drainElapsed > DrainTimeoutMillis
    /\ "Handler error" \in logged
    /\ "Socket error" \in logged

\* the steps of main() from the first close to the exit, in program order
PhaseOrder ==
    { <<"close_ms", "close_sd">>, <<"close_sd", "close_in">>,
      <<"close_in", "close_sd">>, <<"close_in", "drainloop">>,
      <<"drainloop", "delay">>, <<"delay", "srv_shutdown">>,
      <<"srv_shutdown", "srv_wait">>, <<"srv_wait", "exit">>,
      <<"exit", "done">> }

\* the timers main has waited out before the first close
WaitedBeforeCloses == IF shutdown THEN GraceMillis ELSE 0

\* C13: on both paths main goes through the closes, the drain loop, the
\* 10ms delay, the HTTP shutdown (at most 5s) and the exit in this order
\* and leaves none out, whatever has finished already: the drain loop starts
\* with every channel closed, the delay follows the drain loop's timeout,
\* the HTTP server is shut down after the delay, and the process exits
\* after srv.Shutdown has returned and not before.
C13_PhaseOrder ==
    /\ [][ (pc' # pc /\ pc \notin PreCommit \cup {"grace"}) =>
              <<pc, pc'>> \in PhaseOrder ]_vars
    /\ [](pc \in {"drainloop"} \cup AfterDrain =>
              (msShutdownClosed /\ AllHandlersClosed))
    /\ [](pc = "drainloop" => waited = WaitedBeforeCloses)
    /\ [](pc = "delay" =>
              waited = WaitedBeforeCloses + DrainTimeoutMillis)
    /\ [](pc \in {"srv_shutdown", "srv_wait"} =>
              waited = WaitedBeforeCloses + DrainTimeoutMillis + ExitDelayMillis)
    /\ [](pc \in {"exit", "done"} =>
              waited - (WaitedBeforeCloses + DrainTimeoutMillis + ExitDelayMillis)
                 \in {0, HTTPShutdownSeconds * 1000})
    /\ [](pc \in {"srv_wait", "exit", "done"} => httpPc # "serving")
    /\ [](exitCode # NoExit => pc = "done")
    /\ [][ (exitCode' # exitCode) => (pc = "exit" /\ pc' = "done") ]_vars

C13_Witness ==
    /\ pc = "srv_wait"
    /\ \A h \in Handlers : hpc[h] = "exited"
    /\ httpPc = "exited"
    /\ MsPending = 0
    /\ ActiveRequests = {}

\* C14: once a path is committed main reaches the exit, whatever the
\* handlers, the producer and the HTTP connections do or fail to do; only
\* main's own steps and its timers are assumed to make progress.
C14_AlwaysTerminates ==
    (fault \/ shutdown) ~> (pc = "done" /\ exitCode # NoExit)

C14_Witness ==
    /\ pc = "done"
    /\ exitCode # NoExit
    /\ "HTTP shutdown error" \in logged
    /\ ActiveRequests # {}
    /\ \E h \in Handlers : hpc[h] # "exited"

\* C15 as claimed: when the process has exited, no handler and no HTTP
\* goroutine is blocked in its send on handlerDeath: every push that was
\* attempted has been received by main.
C15_NoPushLeftBlocked ==
    pc = "done" => (DeathSenders = {} /\ httpPc # "pushing")

\* C16 as claimed: an input queue never holds more than its capacity; a
\* request blocks in its send only on a full queue, and a blocked send ends
\* only by putting its message on the queue: the message is never dropped
\* and the send never fails.
C16_BoundedBlockingQueue ==
    /\ [](\A h \in Handlers : input[h] \in 0 .. HandlerQueueLength)
    /\ [][ \A h \in Handlers :
              /\ senders'[h] > senders[h] => input[h] = HandlerQueueLength
              /\ senders'[h] < senders[h] =>
                    /\ input'[h] = input[h] + 1
                    /\ input[h] < HandlerQueueLength
                    /\ reqPanicked' = reqPanicked
         ]_vars

\* C17 as claimed: a handler's push onto handlerDeath never keeps it from
\* the messages on its input queue: whenever a handler with queued messages
\* stands in its send, main stands at a select that receives from
\* handlerDeath, so that the send completes at once.
C17_PushNeverStalls ==
    \A h \in Handlers :
        (hpc[h] = "pushing" /\ input[h] > 0 /\ pc # "done")
            => pc \in {"runloop", "drainloop"}

\* C19: no close is executed on a channel that is closed already, so main
\* never panics in a close: the producer's shutdown channel and each
\* handler's Shutdown and Input are open when main comes to close them, on
\* either path, with the producer started or not, and all of them are
\* closed, for good, when the drain loop begins.
C19_NoDoubleClose ==
    /\ [](pc # "panic" /\ exitCode # ExitPanic)
    /\ [](pc = "close_ms" => ~msShutdownClosed)
    /\ [](pc = "close_sd" => closeCur \notin shutdownClosed)
    /\ [](pc = "close_in" => closeCur \notin inputClosed)
    /\ [](pc \in PreCommit \cup {"grace"} =>
             (~msShutdownClosed /\ shutdownClosed = {} /\ inputClosed = {}))
    /\ [](pc \in AfterCloses => (msShutdownClosed /\ AllHandlersClosed))
    /\ [][ /\ msShutdownClosed => msShutdownClosed'
           /\ shutdownClosed \subseteq shutdownClosed'
           /\ inputClosed \subseteq inputClosed'
           /\ msShutdownClosed' # msShutdownClosed => pc = "close_ms"
           /\ shutdownClosed' # shutdownClosed =>
                 (pc = "close_sd" /\ shutdownClosed' = shutdownClosed \cup {closeCur})
           /\ inputClosed' # inputClosed =>
                 (pc = "close_in" /\ inputClosed' = inputClosed \cup {closeCur})
         ]_vars

C19_Witness ==
    /\ pc = "done"
    /\ ~msStarted
    /\ msShutdownClosed
    /\ AllHandlersClosed
    /\ fault
    /\ "Handler error" \in logged

\* C20: a termination signal delivered at any time from the registration
\* on, also before the run loop is entered, stays in c until the run loop
\* takes it, and the run loop takes it by committing the graceful path;
\* unless the fault path is committed first, this happens eventually.  A
\* further signal never blocks: it fills c again or is dropped, and changes
\* nothing else.
C20_SignalNotLost ==
    /\ [](c \in {0, 1})
    /\ [](signalsSent > 0 => (c = 1 \/ shutdown))
    /\ []((Running /\ signalsSent < MaxSignals) => ENABLED DeliverSignal)
    /\ [][ signalsSent' # signalsSent =>
              /\ c' = 1
              /\ UNCHANGED <<pc, flagVars, logged, waited, drainElapsed,
                             msVars, handlerVars, reqVars, httpPc, loopVars>>
         ]_vars
    /\ [][ c' < c =>
              /\ pc = "runloop"
              /\ shutdown' /\ ~fault'
              /\ processState' = "ShuttingDown"
         ]_vars
    /\ ((c = 1 /\ ~fault) ~> (shutdown \/ fault))

C20_Witness ==
    /\ pc = "handlers"
    /\ c = 1
    /\ signalsSent > 1
    /\ launched = 0


====
